---- MODULE Spec2Model ----
(***************************************************************************)
(* Model of the Turing-machine table converter (src/src/main.rs).          *)
(*                                                                         *)
(* A state label is a sequence of one-character strings ("halt" is         *)
(* <<"h","a","l","t">>), so that prefix tests and concatenations are       *)
(* computed as the code computes them.  A tape symbol is a one-character   *)
(* string.  A Transition is a record with the fields of the Rust struct.   *)
(* An output line is the sequence of its whitespace-separated tokens, each *)
(* token a sequence of characters.                                         *)
(***************************************************************************)
EXTENDS Integers, Sequences, FiniteSets, TLC

VARIABLES
    machine_type,   \* header of the input file: "Infinite" (;I) or "Sipser" (;S)
    original,       \* original_transitions: the parsed records of the input file
    pc,             \* position of the converter / of the generated machine
    outA,           \* all_transitions of a first run of run_converter
    outB,           \* all_transitions of a second run on the same input
    input,          \* initial tape content of the machines (a 0/1 string)
    prog,           \* the transition lines of the emitted file
    gen,            \* configuration of the generated machine
    srcm,           \* configuration of the source machine
    exc,            \* the control excursion the generated machine is in
    in_file,        \* the lines of the input file, each a sequence of characters
    result,         \* what run_converter returned
    out_file,       \* the output file: absent, old, or the bytes written
    rec,            \* a Transition handed to Display
    text,           \* a line of text handed to parse_line
    parsed,         \* what parse_line returned
    renamed_out     \* what rename_original_states returned

vars == <<machine_type, original, pc, outA, outB, input, prog, gen, srcm, exc,
          in_file, result, out_file, rec, text, parsed, renamed_out>>

\* the variables of the file-level and function-level specifications
ioVars == <<in_file, result, out_file, rec, text, parsed, renamed_out>>

(***************************************************************************)
(* constants (mod constants)                                               *)
(***************************************************************************)
LEFT_WALL == "#"
RIGHT_WALL == "$"
BLANK == "_"
ANY == "*"
HALT_PREFIX == <<"h","a","l","t">>
SIM_PREFIX == <<"s","i","m","_">>
START_STATE == <<"0">>

\* the literals of the format! calls
CHECK_RIGHT == <<"c","h","e","c","k","_","r","i","g","h","t","_">>
EXPAND_RIGHT == <<"e","x","p","a","n","d","_","r","i","g","h","t","_">>
CHECK_LEFT == <<"c","h","e","c","k","_","l","e","f","t","_">>
SHIFT_START == <<"s","h","i","f","t","_","s","t","a","r","t","_">>
SHIFT_CARRY_0 == <<"s","h","i","f","t","_","c","a","r","r","y","_","0","_">>
SHIFT_CARRY_1 == <<"s","h","i","f","t","_","c","a","r","r","y","_","1","_">>
SHIFT_WRITE_END == <<"s","h","i","f","t","_","w","r","i","t","e","_","e","n","d","_">>
SHIFT_RETURN == <<"s","h","i","f","t","_","r","e","t","u","r","n","_">>
CHECK_LEFT_WALL == <<"c","h","e","c","k","_","l","e","f","t","_","w","a","l","l","_">>
Q_WRITE_END_MARKER == <<"q","_","w","r","i","t","e","_","e","n","d","_","m","a","r","k","e","r">>
Q_RETURN_HEAD == <<"q","_","r","e","t","u","r","n","_","h","e","a","d">>
Q_CARRY_0 == <<"q","_","c","a","r","r","y","_","0">>
Q_CARRY_1 == <<"q","_","c","a","r","r","y","_","1">>
Q_WRITE_END_MARKER_EMPTY == Q_WRITE_END_MARKER \o <<"_","e","m","p","t","y">>
Q_WRITE_WALL == <<"q","_","w","r","i","t","e","_","w","a","l","l">>

Transition(cs, csym, nsym, dir, ns) ==
    [current_state |-> cs, current_symbol |-> csym, new_symbol |-> nsym,
     direction |-> dir, new_state |-> ns]

\* str::starts_with
starts_with(s, p) == Len(s) >= Len(p) /\ SubSeq(s, 1, Len(p)) = p

is_halt_state(state) == starts_with(state, HALT_PREFIX)

\* mutant: the terminal test is dropped
get_next_state_Mut(original_new_state, check_state) == check_state

get_next_state(original_new_state, check_state) ==
    IF is_halt_state(original_new_state) THEN original_new_state ELSE check_state

\* mutant: a label that already carries the prefix is not prefixed again
rename_Mut(state, prefix) ==
    IF is_halt_state(state) \/ starts_with(state, prefix) THEN state
    ELSE prefix \o state

\* the closure of rename_original_states
rename(state, prefix) ==
    IF is_halt_state(state) THEN state ELSE prefix \o state

\* mutant: the labels are left as the user wrote them
rename_original_states_Mut(original_transitions, prefix) == original_transitions

rename_original_states(original_transitions, prefix) ==
    [i \in 1..Len(original_transitions) |->
        LET t == original_transitions[i] IN
        Transition(rename(t.current_state, prefix), t.current_symbol,
                   t.new_symbol, t.direction, rename(t.new_state, prefix))]

(***************************************************************************)
(* Boundary primitives                                                     *)
(***************************************************************************)
\* mutant: carrying 1 over a 0 writes 0
generate_carry_logic_Mut(carry_0_state, carry_1_state) ==
    << Transition(carry_0_state, "0", "0", "Right", carry_0_state),
       Transition(carry_0_state, "1", "0", "Right", carry_1_state),
       Transition(carry_1_state, "0", "0", "Right", carry_0_state),
       Transition(carry_1_state, "1", "1", "Right", carry_1_state) >>

generate_carry_logic(carry_0_state, carry_1_state) ==
    << Transition(carry_0_state, "0", "0", "Right", carry_0_state),
       Transition(carry_0_state, "1", "0", "Right", carry_1_state),
       Transition(carry_1_state, "0", "1", "Right", carry_0_state),
       Transition(carry_1_state, "1", "1", "Right", carry_1_state) >>

\* mutant: on '#' the head stays
generate_return_head_logic_Mut(return_state, target_state) ==
    << Transition(return_state, ANY, ANY, "Left", return_state),
       Transition(return_state, LEFT_WALL, LEFT_WALL, "Stay", target_state) >>

generate_return_head_logic(return_state, target_state) ==
    << Transition(return_state, ANY, ANY, "Left", return_state),
       Transition(return_state, LEFT_WALL, LEFT_WALL, "Right", target_state) >>

generate_check_logic(check_state, on_any_state, on_symbol, on_symbol_new_symbol, on_symbol_direction, on_symbol_new_state) ==
    << Transition(check_state, ANY, ANY, "Stay", on_any_state),
       Transition(check_state, on_symbol, on_symbol_new_symbol,
                  on_symbol_direction, on_symbol_new_state) >>

(***************************************************************************)
(* Infinite -> Sipser                                                      *)
(***************************************************************************)
generate_setup_transitions(renamed_start_state) ==
    << Transition(START_STATE, "0", LEFT_WALL, "Right", Q_CARRY_0),
       Transition(START_STATE, "1", LEFT_WALL, "Right", Q_CARRY_1) >>
    \o generate_carry_logic(Q_CARRY_0, Q_CARRY_1)
    \o << Transition(Q_CARRY_0, BLANK, "0", "Right", Q_WRITE_END_MARKER),
          Transition(Q_CARRY_1, BLANK, "1", "Right", Q_WRITE_END_MARKER),
          Transition(Q_WRITE_END_MARKER, BLANK, RIGHT_WALL, "Left", Q_RETURN_HEAD) >>
    \o generate_return_head_logic(Q_RETURN_HEAD, renamed_start_state)
    \o << Transition(START_STATE, BLANK, LEFT_WALL, "Right", Q_WRITE_END_MARKER_EMPTY),
          Transition(Q_WRITE_END_MARKER_EMPTY, BLANK, RIGHT_WALL, "Left",
                     renamed_start_state) >>

\* mutant: after writing the new right marker the head moves on, not back
generate_check_right_logic_Mut(state) ==
    generate_check_logic(CHECK_RIGHT \o state, state, RIGHT_WALL, BLANK, "Right",
                         EXPAND_RIGHT \o state)
    \o << Transition(EXPAND_RIGHT \o state, BLANK, RIGHT_WALL, "Right", state) >>

generate_check_right_logic(state) ==
    generate_check_logic(CHECK_RIGHT \o state, state, RIGHT_WALL, BLANK, "Right",
                         EXPAND_RIGHT \o state)
    \o << Transition(EXPAND_RIGHT \o state, BLANK, RIGHT_WALL, "Left", state) >>

generate_shift_sub_logic(state_suffix, shift_start_state) ==
    LET carry_0 == SHIFT_CARRY_0 \o state_suffix
        carry_1 == SHIFT_CARRY_1 \o state_suffix
        write_end == SHIFT_WRITE_END \o state_suffix
        return_s == SHIFT_RETURN \o state_suffix
    IN  << Transition(shift_start_state, "0", BLANK, "Right", carry_0),
           Transition(shift_start_state, "1", BLANK, "Right", carry_1),
           Transition(shift_start_state, BLANK, BLANK, "Stay", state_suffix) >>
        \o generate_carry_logic(carry_0, carry_1)
        \o << Transition(carry_0, BLANK, "0", "Right", write_end),
              Transition(carry_1, BLANK, "1", "Right", write_end),
              Transition(carry_0, RIGHT_WALL, "0", "Right", write_end),
              Transition(carry_1, RIGHT_WALL, "1", "Right", write_end),
              Transition(shift_start_state, RIGHT_WALL, BLANK, "Right", write_end),
              Transition(write_end, BLANK, RIGHT_WALL, "Left", return_s) >>
        \o generate_return_head_logic(return_s, state_suffix)

generate_check_left_logic(state) ==
    generate_check_logic(CHECK_LEFT \o state, state, LEFT_WALL, LEFT_WALL, "Right",
                         SHIFT_START \o state)
    \o generate_shift_sub_logic(state, SHIFT_START \o state)

\* mutant: the Left and Right arms are swapped
sim_rewrite_Mut(t) ==
    IF is_halt_state(t.current_state) THEN t
    ELSE CASE t.direction = "Stay" -> t
           [] t.direction = "Left" ->
                [t EXCEPT !.new_state =
                    get_next_state(t.new_state, CHECK_RIGHT \o t.new_state)]
           [] t.direction = "Right" ->
                [t EXCEPT !.new_state =
                    get_next_state(t.new_state, CHECK_LEFT \o t.new_state)]

\* the closure of convert_simulation_transitions: the rewritten copy of one record
sim_rewrite(t) ==
    IF is_halt_state(t.current_state) THEN t
    ELSE CASE t.direction = "Stay" -> t
           [] t.direction = "Right" ->
                [t EXCEPT !.new_state =
                    get_next_state(t.new_state, CHECK_RIGHT \o t.new_state)]
           [] t.direction = "Left" ->
                [t EXCEPT !.new_state =
                    get_next_state(t.new_state, CHECK_LEFT \o t.new_state)]

\* mutant: a destination is collected only for a Right-direction transition
sim_target_states_Mut(original_transitions) ==
    { original_transitions[i].new_state : i \in
        { j \in 1..Len(original_transitions) :
            /\ original_transitions[j].direction = "Right"
            /\ ~is_halt_state(original_transitions[j].new_state) } }

\* target_states of convert_simulation_transitions once the map has run
sim_target_states(original_transitions) ==
    { original_transitions[i].new_state : i \in
        { j \in 1..Len(original_transitions) :
            ~is_halt_state(original_transitions[j].new_state) } }

\* The orders in which a HashSet may hand out its elements: every enumeration
\* of the set without repetition.
IterationOrders(set) ==
    { o \in [1..Cardinality(set) -> set] :
        \A i, j \in 1..Cardinality(set) : i # j => o[i] # o[j] }

\* mutant: the loop ends after its first iteration
sim_clusters_Mut(order) ==
    IF order = <<>> THEN <<>>
    ELSE generate_check_right_logic(Head(order))
         \o generate_check_left_logic(Head(order))

\* the loop "for state in target_states" of convert_simulation_transitions
RECURSIVE sim_clusters(_)
sim_clusters(order) ==
    IF order = <<>> THEN <<>>
    ELSE generate_check_right_logic(Head(order))
         \o generate_check_left_logic(Head(order))
         \o sim_clusters(Tail(order))

\* order: the iteration order of target_states in this run
convert_simulation_transitions(original_transitions, order) ==
    [i \in 1..Len(original_transitions) |-> sim_rewrite(original_transitions[i])]
    \o sim_clusters(order)

(***************************************************************************)
(* Sipser -> Infinite                                                      *)
(***************************************************************************)
generate_wall_setup_transitions(renamed_start_state) ==
    << Transition(START_STATE, ANY, ANY, "Left", Q_WRITE_WALL),
       Transition(Q_WRITE_WALL, BLANK, LEFT_WALL, "Right", renamed_start_state) >>

\* the closure of convert_sipser_to_infinite
\* mutant: the Right-direction transitions are the ones retargeted
wall_rewrite_Mut(t) ==
    IF t.direction = "Right"
    THEN [t EXCEPT !.new_state =
            get_next_state(t.new_state, CHECK_LEFT_WALL \o t.new_state)]
    ELSE t

wall_rewrite(t) ==
    IF t.direction = "Left"
    THEN [t EXCEPT !.new_state =
            get_next_state(t.new_state, CHECK_LEFT_WALL \o t.new_state)]
    ELSE t

\* mutant: every non-terminal destination is collected, whatever the direction
wall_target_states_Mut(original_transitions) ==
    { original_transitions[i].new_state : i \in
        { j \in 1..Len(original_transitions) :
            ~is_halt_state(original_transitions[j].new_state) } }

wall_target_states(original_transitions) ==
    { original_transitions[i].new_state : i \in
        { j \in 1..Len(original_transitions) :
            /\ original_transitions[j].direction = "Left"
            /\ ~is_halt_state(original_transitions[j].new_state) } }

RECURSIVE wall_clusters(_)
wall_clusters(order) ==
    IF order = <<>> THEN <<>>
    ELSE generate_check_logic(CHECK_LEFT_WALL \o Head(order), Head(order),
                              LEFT_WALL, LEFT_WALL, "Stay", HALT_PREFIX)
         \o wall_clusters(Tail(order))

convert_sipser_to_infinite(original_transitions, order) ==
    [i \in 1..Len(original_transitions) |-> wall_rewrite(original_transitions[i])]
    \o wall_clusters(order)

(***************************************************************************)
(* Serialisation and run_converter                                         *)
(***************************************************************************)
\* Display for Direction
DisplayDirection(d) ==
    CASE d = "Left" -> <<"l">>
      [] d = "Right" -> <<"r">>
      [] d = "Stay" -> <<"*">>

\* Display for Transition: the five tokens of the line
Display(t) ==
    << t.current_state,
       <<t.current_symbol>>,
       IF t.new_symbol = t.current_symbol THEN <<ANY>> ELSE <<t.new_symbol>>,
       DisplayDirection(t.direction),
       IF t.new_state = t.current_state THEN <<ANY>> ELSE t.new_state >>

\* the two comment lines written before the transitions
header(mtype) ==
    << << <<";">>, <<"-","-","-">>,
          IF mtype = "Infinite"
          THEN <<"I","n","f","i","n","i","t","e","-","t","o","-","S","i","p","s","e","r">>
          ELSE <<"S","i","p","s","e","r","-","t","o","-","I","n","f","i","n","i","t","e">>,
          <<"S","i","m","u","l","a","t","i","o","n">>, <<"-","-","-">> >>,
       << <<";">>, <<"S","t","a","r","t">>, <<"s","t","a","t","e",":">>, START_STATE >> >>

renamed_start_state == SIM_PREFIX \o START_STATE

\* the target-state set whose iteration order a run of run_converter draws
target_states(mtype, original_transitions) ==
    LET renamed == rename_original_states(original_transitions, SIM_PREFIX) IN
    IF mtype = "Infinite" THEN sim_target_states(renamed)
    ELSE wall_target_states(renamed)

\* mutant: the setup records are chained after the converted transitions
all_transitions_Mut(mtype, original_transitions, order) ==
    LET renamed == rename_original_states(original_transitions, SIM_PREFIX) IN
    IF mtype = "Infinite"
    THEN convert_simulation_transitions(renamed, order)
         \o generate_setup_transitions(renamed_start_state)
    ELSE convert_sipser_to_infinite(renamed, order)
         \o generate_wall_setup_transitions(renamed_start_state)

\* all_transitions of run_converter
all_transitions(mtype, original_transitions, order) ==
    LET renamed == rename_original_states(original_transitions, SIM_PREFIX) IN
    IF mtype = "Infinite"
    THEN generate_setup_transitions(renamed_start_state)
         \o convert_simulation_transitions(renamed, order)
    ELSE generate_wall_setup_transitions(renamed_start_state)
         \o convert_sipser_to_infinite(renamed, order)

\* the lines written to the output file
output_file(mtype, transitions) ==
    header(mtype) \o [i \in 1..Len(transitions) |-> Display(transitions[i])]

(***************************************************************************)
(* The inputs of the conversion runs                                       *)
(***************************************************************************)
MaxRules == 2

HALT1 == <<"h","a","l","t","1">>
SrcStates == { START_STATE, HALT1 }
DstStates == { START_STATE, <<"1">>, HALT1 }
Directions == { "Left", "Right", "Stay" }
SymbolPairs == { <<"0", "1">>, <<BLANK, BLANK>> }

SrcRecords ==
    { Transition(cs, sp[1], sp[2], d, ns) :
        cs \in SrcStates, sp \in SymbolPairs, d \in Directions, ns \in DstStates }

SrcTables == UNION { [1..n -> SrcRecords] : n \in 0..MaxRules }

\* the file-level and function-level variables while they are not in use
None == "none"
IoIdle ==
    /\ in_file = <<>>
    /\ result = None
    /\ out_file = "absent"
    /\ rec = None
    /\ text = None
    /\ parsed = None
    /\ renamed_out = <<>>

\* a machine that has not been started, and no control excursion
Idle == [state |-> <<>>, tape |-> <<>>, head |-> 0]
NoExc == [kind |-> "none", target |-> <<>>, tape |-> <<>>, head |-> 0, n |-> 0]

(***************************************************************************)
(* Spec: two runs of run_converter on the same input file                  *)
(***************************************************************************)
Init ==
    /\ machine_type \in { "Infinite", "Sipser" }
    /\ original \in SrcTables
    /\ pc = "input"
    /\ outA = <<>>
    /\ outB = <<>>
    /\ input = <<>>
    /\ prog = <<>>
    /\ gen = Idle
    /\ srcm = Idle
    /\ exc = NoExc
    /\ IoIdle

\* run_converter, first run: the HashSet hands out target_states in some order
RunFirst ==
    /\ pc = "input"
    /\ \E order \in IterationOrders(target_states(machine_type, original)) :
          outA' = all_transitions(machine_type, original, order)
    /\ pc' = "ranA"
    /\ UNCHANGED <<machine_type, original, outB, input, prog, gen, srcm, exc>>
    /\ UNCHANGED ioVars

\* run_converter, second run on the same input file
RunSecond ==
    /\ pc = "ranA"
    /\ \E order \in IterationOrders(target_states(machine_type, original)) :
          outB' = all_transitions(machine_type, original, order)
    /\ pc' = "ranB"
    /\ UNCHANGED <<machine_type, original, outA, input, prog, gen, srcm, exc>>
    /\ UNCHANGED ioVars

Next == RunFirst \/ RunSecond

Spec == Init /\ [][Next]_vars

(***************************************************************************)
(* Execution of a transition table.                                        *)
(*                                                                         *)
(* The emitted file is a table for a Turing-machine simulator; the claims  *)
(* about the generated machine are about its runs.  The semantics is the   *)
(* one the table format has: the rule for (state, symbol) is the line with *)
(* that state and symbol, or else the line with that state and '*'; a '*'  *)
(* as new symbol or new state means "unchanged"; the machine halts in a    *)
(* state that starts with "halt" and when no line applies.  A tape is the  *)
(* sequence of its cells from its first cell to the last visited or        *)
(* non-blank one; every other cell is blank.                               *)
(***************************************************************************)
Cell(tape, i) == IF i \in 1..Len(tape) THEN tape[i] ELSE BLANK

RuleIndices(lines, state, sym) ==
    LET exact == { k \in 1..Len(lines) : lines[k][1] = state /\ lines[k][2] = <<sym>> }
    IN  IF exact # {} THEN exact
        ELSE { k \in 1..Len(lines) : lines[k][1] = state /\ lines[k][2] = <<ANY>> }

HasRule(cfg, lines) == RuleIndices(lines, cfg.state, Cell(cfg.tape, cfg.head)) # {}

Halted(cfg, lines) == is_halt_state(cfg.state) \/ ~HasRule(cfg, lines)

\* drops the blank cells right of both the head and the last non-blank cell
RECURSIVE TrimRight(_, _)
TrimRight(tape, head) ==
    IF Len(tape) > head /\ tape[Len(tape)] = BLANK
    THEN TrimRight(SubSeq(tape, 1, Len(tape) - 1), head)
    ELSE tape

\* drops the blank cells left of both the head and the first non-blank cell
\* (two-way tape only); returns the tape and the head's new index
RECURSIVE TrimLeft(_, _)
TrimLeft(tape, head) ==
    IF head > 1 /\ tape[1] = BLANK
    THEN TrimLeft(Tail(tape), head - 1)
    ELSE [tape |-> tape, head |-> head]

\* One step.  twoWay: the tape is infinite to the left as well; on a one-way
\* tape a move left from the first cell leaves the head in place.
Step(cfg, lines, twoWay) ==
    LET idx == RuleIndices(lines, cfg.state, Cell(cfg.tape, cfg.head))
        line == lines[CHOOSE x \in idx : \A y \in idx : x <= y]
        padded == IF cfg.head > Len(cfg.tape)
                  THEN cfg.tape \o [i \in 1..(cfg.head - Len(cfg.tape)) |-> BLANK]
                  ELSE cfg.tape
        written == IF line[3] = <<ANY>> THEN padded
                   ELSE [padded EXCEPT ![cfg.head] = line[3][1]]
        state == IF line[5] = <<ANY>> THEN cfg.state ELSE line[5]
        moved ==
            CASE line[4] = <<"r">> ->
                    [tape |-> IF cfg.head = Len(written) THEN Append(written, BLANK)
                              ELSE written,
                     head |-> cfg.head + 1]
              [] line[4] = <<"l">> ->
                    IF cfg.head > 1 THEN [tape |-> written, head |-> cfg.head - 1]
                    ELSE IF twoWay THEN [tape |-> <<BLANK>> \o written, head |-> 1]
                    ELSE [tape |-> written, head |-> 1]
              [] OTHER -> [tape |-> written, head |-> cfg.head]
        right == TrimRight(moved.tape, moved.head)
        both == IF twoWay THEN TrimLeft(right, moved.head)
                ELSE [tape |-> right, head |-> moved.head]
    IN  [state |-> state, tape |-> both.tape, head |-> both.head]

\* the transition lines of a file: the simulator skips the comment lines
TransitionLines(file) == SelectSeq(file, LAMBDA l : l[1] # <<";">>)

\* the input file of the source machine, as the converter's parser read it
SourceLines == [i \in 1..Len(original) |-> Display(original[i])]

InitialConfig(word) ==
    [state |-> START_STATE, tape |-> IF word = <<>> THEN <<BLANK>> ELSE word, head |-> 1]

(***************************************************************************)
(* SpecSim: an Infinite-to-Sipser conversion, then the generated machine   *)
(* run on its one-way tape beside the source machine on its two-way tape.  *)
(***************************************************************************)
MaxInput == 2
MaxTape == 6

SimSymbols == { "0", "1", BLANK }
\* what a table may hold for one symbol of state "0": no rule, a rule that
\* writes any symbol, moves any way and stays in "0", or a rule that writes a
\* blank, moves right or stays, and halts
SimRuleChoices ==
    { <<>> }
    \cup { <<[new_symbol |-> w, direction |-> d, new_state |-> START_STATE]>> :
              w \in SimSymbols, d \in Directions }
    \cup { <<[new_symbol |-> BLANK, direction |-> d, new_state |-> HALT1]>> :
              d \in { "Right", "Stay" } }

\* the deterministic one-state tables over {0,1,_}
SimTables ==
    { [i \in 1..Len(c0) |-> Transition(START_STATE, "0", c0[i].new_symbol,
                                       c0[i].direction, c0[i].new_state)]
      \o [i \in 1..Len(c1) |-> Transition(START_STATE, "1", c1[i].new_symbol,
                                          c1[i].direction, c1[i].new_state)]
      \o [i \in 1..Len(cb) |-> Transition(START_STATE, BLANK, cb[i].new_symbol,
                                          cb[i].direction, cb[i].new_state)] :
        c0 \in SimRuleChoices, c1 \in SimRuleChoices, cb \in SimRuleChoices }

SimInputs == UNION { [1..n -> { "0", "1" }] : n \in 0..MaxInput }

InitSim ==
    /\ machine_type = "Infinite"
    /\ original \in SimTables
    /\ input \in SimInputs
    /\ pc = "input"
    /\ outA = <<>>
    /\ outB = <<>>
    /\ prog = <<>>
    /\ gen = Idle
    /\ srcm = Idle
    /\ exc = NoExc
    /\ IoIdle

\* run_converter, then both machines are placed on the input
Convert ==
    /\ pc = "input"
    /\ \E order \in IterationOrders(target_states(machine_type, original)) :
          prog' = TransitionLines(output_file(machine_type,
                      all_transitions(machine_type, original, order)))
    /\ gen' = InitialConfig(input)
    /\ srcm' = InitialConfig(input)
    /\ pc' = "setup"
    /\ UNCHANGED <<machine_type, original, outA, outB, input, exc>>
    /\ UNCHANGED ioVars

Embedded(state) == starts_with(state, SIM_PREFIX)

\* the control excursion a step into `state` opens, if any
Excursion(state, cfg) ==
    IF starts_with(state, CHECK_RIGHT)
    THEN [kind |-> "right", target |-> SubSeq(state, Len(CHECK_RIGHT) + 1, Len(state)),
          tape |-> cfg.tape, head |-> cfg.head, n |-> 0]
    ELSE IF starts_with(state, CHECK_LEFT)
    THEN [kind |-> "left", target |-> SubSeq(state, Len(CHECK_LEFT) + 1, Len(state)),
          tape |-> cfg.tape, head |-> cfg.head, n |-> 0]
    ELSE NoExc

WithinTape(cfg) == Len(cfg.tape) <= MaxTape

\* a step of the generated machine in a control state (setup, check_,
\* expand_, shift_): the source machine waits
StepControl ==
    /\ pc \in { "setup", "embedded" }
    /\ ~Embedded(gen.state)
    /\ ~Halted(gen, prog)
    /\ gen' = Step(gen, prog, FALSE)
    /\ WithinTape(gen')
    /\ exc' = IF exc.kind = "none" THEN exc ELSE [exc EXCEPT !.n = @ + 1]
    /\ UNCHANGED <<machine_type, original, pc, outA, outB, input, prog, srcm>>
    /\ UNCHANGED ioVars

\* a step of the generated machine in an embedded state sim_q: the source
\* machine takes its step too
StepEmbedded ==
    /\ pc \in { "setup", "embedded" }
    /\ Embedded(gen.state)
    /\ ~Halted(gen, prog)
    /\ gen' = Step(gen, prog, FALSE)
    /\ srcm' = IF Halted(srcm, SourceLines) THEN srcm
               ELSE Step(srcm, SourceLines, TRUE)
    /\ WithinTape(gen')
    /\ WithinTape(srcm')
    /\ exc' = Excursion(gen'.state, gen')
    /\ pc' = "embedded"
    /\ UNCHANGED <<machine_type, original, outA, outB, input, prog>>
    /\ UNCHANGED ioVars

NextSim == Convert \/ StepControl \/ StepEmbedded

SpecSim == InitSim /\ [][NextSim]_vars

(***************************************************************************)
(* Properties of the conversion (Spec)                                     *)
(***************************************************************************)
\* number of setup records that precede the rewritten source records
SetupLen == IF machine_type = "Infinite" THEN 13 ELSE 2
Renamed == rename_original_states(original, SIM_PREFIX)
Indices == 1..Len(original)
Ran == pc \in { "ranA", "ranB" }
Occurrences(seq, x) == Cardinality({ k \in 1..Len(seq) : seq[k] = x })
WithState(seq, state) == { k \in 1..Len(seq) : seq[k].current_state = state }
NonTerminalTargets(dir) ==
    { Renamed[i].new_state : i \in
        { j \in Indices : Renamed[j].direction = dir
                          /\ ~is_halt_state(Renamed[j].new_state) } }

\* C5 (as claimed): two runs on the same input file write byte-identical
\* output: the same lines in the same order.
CE_C5_Deterministic ==
    pc = "ranB" =>
        output_file(machine_type, outA) = output_file(machine_type, outB)

\* C6: whatever the two iteration orders of the target-state set, the two
\* outputs hold the same multiset of lines, and their prefix made of the
\* comment lines, the setup records and the rewritten source records is the
\* same.
Thm_C6_OrderOnlyPermutes ==
    pc = "ranB" =>
        LET fa == output_file(machine_type, outA)
            fb == output_file(machine_type, outB)
            n == 2 + SetupLen + Len(original)
        IN  /\ Len(fa) = Len(fb)
            /\ \A k \in 1..Len(fa) : Occurrences(fa, fa[k]) = Occurrences(fb, fa[k])
            /\ SubSeq(fa, 1, n) = SubSeq(fb, 1, n)
            /\ SubSeq(outA, 1, n - 2) = SubSeq(outB, 1, n - 2)

Wit_C6_TwoOrders ==
    /\ pc = "ranB"
    /\ outA # outB
    /\ machine_type = "Infinite"

\* C7 (as claimed): a source transition whose destination starts with "halt"
\* is found in the output with the same current state, symbols, direction and
\* destination.
CE_C7_Unchanged ==
    Ran => \A i \in Indices :
              is_halt_state(original[i].new_state) =>
                  \E k \in 1..Len(outA) : outA[k] = original[i]

\* C7 (amended): the record emitted for a source transition whose destination
\* starts with "halt" has the current state as the State Renamer leaves it
\* ("sim_" prefixed unless it starts with "halt"), the same symbols and
\* direction, and the identical, unrenamed destination; in both pipelines.
Thm_C7_TerminalDestinationKept ==
    Ran => \A i \in Indices :
              is_halt_state(original[i].new_state) =>
                  outA[SetupLen + i] =
                      [original[i] EXCEPT !.current_state =
                          IF is_halt_state(original[i].current_state)
                          THEN original[i].current_state
                          ELSE SIM_PREFIX \o original[i].current_state]

Wit_C7_TerminalDestination ==
    /\ pc = "ranA"
    /\ \E i, j \in Indices :
          /\ is_halt_state(original[i].new_state)
          /\ ~is_halt_state(original[i].current_state)
          /\ original[i].direction = "Left"
          /\ is_halt_state(original[j].new_state)
          /\ original[j].direction = "Right"

\* C8 (as claimed): the record emitted for a renamed source transition goes to
\* check_right_<dest> (Right) or check_left_<dest> (Left) when the destination
\* is not terminal, whatever its current state.
CE_C8_RewriteAnyCurrentState ==
    (Ran /\ machine_type = "Infinite") =>
        \A i \in Indices :
            LET t == Renamed[i] IN
            outA[SetupLen + i].new_state =
                IF t.direction = "Stay" \/ is_halt_state(t.new_state) THEN t.new_state
                ELSE IF t.direction = "Right" THEN CHECK_RIGHT \o t.new_state
                ELSE CHECK_LEFT \o t.new_state

\* C8 (amended): the same, for the transitions whose current state does not
\* start with "halt"; a transition whose current state starts with "halt" is
\* emitted unchanged.  Only new_state ever differs.
Thm_C8_Rewrite ==
    (Ran /\ machine_type = "Infinite") =>
        \A i \in Indices :
            LET t == Renamed[i] IN
            outA[SetupLen + i] =
                [t EXCEPT !.new_state =
                    IF \/ is_halt_state(t.current_state)
                       \/ t.direction = "Stay"
                       \/ is_halt_state(t.new_state)
                    THEN t.new_state
                    ELSE IF t.direction = "Right" THEN CHECK_RIGHT \o t.new_state
                    ELSE CHECK_LEFT \o t.new_state]

Wit_C8_Rewrite ==
    /\ pc = "ranA"
    /\ machine_type = "Infinite"
    /\ \E i, j \in Indices :
          /\ is_halt_state(original[i].current_state)
          /\ original[i].direction = "Right"
          /\ ~is_halt_state(original[i].new_state)
          /\ ~is_halt_state(original[j].current_state)
          /\ original[j].direction = "Left"
          /\ ~is_halt_state(original[j].new_state)
          /\ outA[SetupLen + j].new_state = CHECK_LEFT \o SIM_PREFIX \o original[j].new_state

\* the records the spec lists for the check_right cluster of S
ExpectedCheckRight(S) ==
    { Transition(CHECK_RIGHT \o S, "$", "_", "Right", EXPAND_RIGHT \o S),
      Transition(CHECK_RIGHT \o S, "*", "*", "Stay", S) }

\* the records of the check_left pair of S and of its shift chain
ExpectedCheckLeft(S) ==
    { Transition(CHECK_LEFT \o S, "#", "#", "Right", SHIFT_START \o S),
      Transition(CHECK_LEFT \o S, "*", "*", "Stay", S) }

ExpectedShiftChain(S) ==
    { Transition(SHIFT_START \o S, "0", "_", "Right", SHIFT_CARRY_0 \o S),
      Transition(SHIFT_START \o S, "1", "_", "Right", SHIFT_CARRY_1 \o S),
      Transition(SHIFT_START \o S, "_", "_", "Stay", S),
      Transition(SHIFT_START \o S, "$", "_", "Right", SHIFT_WRITE_END \o S),
      Transition(SHIFT_CARRY_0 \o S, "0", "0", "Right", SHIFT_CARRY_0 \o S),
      Transition(SHIFT_CARRY_0 \o S, "1", "0", "Right", SHIFT_CARRY_1 \o S),
      Transition(SHIFT_CARRY_1 \o S, "0", "1", "Right", SHIFT_CARRY_0 \o S),
      Transition(SHIFT_CARRY_1 \o S, "1", "1", "Right", SHIFT_CARRY_1 \o S),
      Transition(SHIFT_CARRY_0 \o S, "_", "0", "Right", SHIFT_WRITE_END \o S),
      Transition(SHIFT_CARRY_1 \o S, "_", "1", "Right", SHIFT_WRITE_END \o S),
      Transition(SHIFT_CARRY_0 \o S, "$", "0", "Right", SHIFT_WRITE_END \o S),
      Transition(SHIFT_CARRY_1 \o S, "$", "1", "Right", SHIFT_WRITE_END \o S),
      Transition(SHIFT_WRITE_END \o S, "_", "$", "Left", SHIFT_RETURN \o S),
      Transition(SHIFT_RETURN \o S, "*", "*", "Left", SHIFT_RETURN \o S),
      Transition(SHIFT_RETURN \o S, "#", "#", "Right", S) }

ControlPrefixes ==
    { <<"c","h","e","c","k","_">>, <<"s","h","i","f","t","_">>,
      <<"e","x","p","a","n","d","_">> }

\* C9: in an Infinite-to-Sipser output, each non-terminal destination S of a
\* Right-direction source transition has exactly two records with current
\* state check_right_S (on '$' to expand_right_S, on '*' to S); each
\* non-terminal destination of a Left-direction one has the check_left_S pair
\* and the whole shift chain, each record once; and every check_, expand_ or
\* shift_ label used as a destination is the current state of some record.
Thm_C9_ClustersComplete ==
    (Ran /\ machine_type = "Infinite") =>
        /\ \A S \in NonTerminalTargets("Right") :
              /\ Cardinality(WithState(outA, CHECK_RIGHT \o S)) = 2
              /\ { outA[k] : k \in WithState(outA, CHECK_RIGHT \o S) }
                    = ExpectedCheckRight(S)
        /\ \A S \in NonTerminalTargets("Left") :
              /\ Cardinality(WithState(outA, CHECK_LEFT \o S)) = 2
              /\ { outA[k] : k \in WithState(outA, CHECK_LEFT \o S) }
                    = ExpectedCheckLeft(S)
              /\ \A r \in ExpectedShiftChain(S) : Occurrences(outA, r) = 1
        /\ \A k \in 1..Len(outA) :
              (\E p \in ControlPrefixes : starts_with(outA[k].new_state, p))
                  => WithState(outA, outA[k].new_state) # {}

Wit_C9_BothClusters ==
    /\ pc = "ranA"
    /\ machine_type = "Infinite"
    /\ \E i, j \in Indices :
          /\ original[i].direction = "Right"
          /\ original[j].direction = "Left"
          /\ ~is_halt_state(original[i].new_state)
          /\ ~is_halt_state(original[j].new_state)
          /\ original[i].new_state # original[j].new_state
          /\ is_halt_state(original[j].current_state)
    /\ \E k \in 1..Len(outA) : outA[k].current_state = SHIFT_RETURN \o SIM_PREFIX \o <<"1">>

\* C10: in a Sipser-to-Infinite output, a Left-direction transition with a
\* non-terminal destination S goes to check_left_wall_S and every other
\* transition keeps its destination; check_left_wall_S has exactly two
\* records, on '#' (keep '#', stay, go to "halt") and on '*' (nothing changes,
\* go to S); and no check_left_wall_ record exists for any other state.
Thm_C10_WallRewrite ==
    (Ran /\ machine_type = "Sipser") =>
        /\ \A i \in Indices :
              LET t == Renamed[i] IN
              outA[SetupLen + i] =
                  IF t.direction = "Left" /\ ~is_halt_state(t.new_state)
                  THEN [t EXCEPT !.new_state = CHECK_LEFT_WALL \o t.new_state]
                  ELSE t
        /\ \A S \in NonTerminalTargets("Left") :
              /\ Cardinality(WithState(outA, CHECK_LEFT_WALL \o S)) = 2
              /\ { outA[k] : k \in WithState(outA, CHECK_LEFT_WALL \o S) } =
                    { Transition(CHECK_LEFT_WALL \o S, "#", "#", "Stay", <<"h","a","l","t">>),
                      Transition(CHECK_LEFT_WALL \o S, "*", "*", "Stay", S) }
        /\ \A k \in 1..Len(outA) :
              starts_with(outA[k].current_state, CHECK_LEFT_WALL) =>
                  \E S \in NonTerminalTargets("Left") :
                      outA[k].current_state = CHECK_LEFT_WALL \o S

Wit_C10_WallRewrite ==
    /\ pc = "ranA"
    /\ machine_type = "Sipser"
    /\ \E i, j \in Indices :
          /\ original[i].direction = "Left"
          /\ original[i].new_state = <<"1">>
          /\ original[j].direction = "Right"
          /\ original[j].new_state = START_STATE
    /\ Cardinality(WithState(outA, CHECK_LEFT_WALL \o SIM_PREFIX \o <<"1">>)) = 2


\* one run of run_converter on the input file
NextOut == RunFirst

SpecOut == Init /\ [][NextOut]_vars

\* the current states of the setup records
SetupStates ==
    IF machine_type = "Infinite"
    THEN { START_STATE, Q_WRITE_END_MARKER, Q_RETURN_HEAD, Q_CARRY_0, Q_CARRY_1,
           Q_WRITE_END_MARKER_EMPTY }
    ELSE { START_STATE, Q_WRITE_WALL }

\* the destinations that get control clusters, and the records per destination
ClusterTargets ==
    IF machine_type = "Infinite"
    THEN { Renamed[i].new_state :
             i \in { j \in Indices : ~is_halt_state(Renamed[j].new_state) } }
    ELSE NonTerminalTargets("Left")

ClusterLen == IF machine_type = "Infinite" THEN 20 ELSE 2

IsControl(state) == \E p \in ControlPrefixes : starts_with(state, p)

\* C18: the output file is two comment lines and then one line per record;
\* the records are the setup records (13 for ";I", 2 for ";S"), then one
\* record per source transition in source order, equal to the renamed
\* source record except possibly in new_state, then the control clusters, a
\* fixed number of records per destination that needs one; when no
\* destination needs one, no check_, expand_ or shift_ record is emitted.
Thm_C18_Composition ==
    Ran =>
        LET file == output_file(machine_type, outA)
            first == SetupLen + 1
            last == SetupLen + Len(original)
        IN  /\ Len(file) = 2 + Len(outA)
            /\ \A k \in 1..Len(file) : (file[k][1][1] = ";") <=> (k <= 2)
            /\ \A k \in 1..Len(outA) : file[2 + k] = Display(outA[k])
            /\ Len(outA) = last + ClusterLen * Cardinality(ClusterTargets)
            /\ outA[1].current_state = START_STATE
            /\ \A k \in 1..Len(outA) :
                  (outA[k].current_state \in SetupStates) <=> (k <= SetupLen)
            /\ \A i \in Indices :
                  LET r == outA[SetupLen + i] IN
                  /\ r.current_state = Renamed[i].current_state
                  /\ r.current_symbol = Renamed[i].current_symbol
                  /\ r.new_symbol = Renamed[i].new_symbol
                  /\ r.direction = Renamed[i].direction
                  /\ r.new_state = Renamed[i].new_state \/ IsControl(r.new_state)
            /\ \A k \in 1..Len(outA) :
                  IsControl(outA[k].current_state) <=> (k > last)
            /\ ClusterTargets = {} =>
                  \A k \in 1..Len(outA) :
                      ~IsControl(outA[k].current_state) /\ ~IsControl(outA[k].new_state)

Wit_C18_SetupSourceClusters ==
    /\ pc = "ranA"
    /\ machine_type = "Infinite"
    /\ Len(original) = 2
    /\ original[1].new_state = HALT1
    /\ original[2].new_state = <<"1">>
    /\ original[2].direction = "Stay"
    /\ Len(outA) = 35
    /\ outA[14].new_state = HALT1
    /\ outA[15].new_state = SIM_PREFIX \o <<"1">>
    /\ IsControl(outA[16].current_state)

(***************************************************************************)
(* Properties of the generated machine (SpecSim)                           *)
(***************************************************************************)
Running == pc \in { "setup", "embedded" }
Positions(tape, sym) == { i \in 1..Len(tape) : tape[i] = sym }
TheOne(set) == CHOOSE x \in set : TRUE

\* the tape is '#', n >= 1 cells over {0,1,_}, '$', and blank after that
Delimited(tape) ==
    /\ Len(tape) >= 3
    /\ tape[1] = LEFT_WALL
    /\ tape[Len(tape)] = RIGHT_WALL
    /\ \A i \in 2..(Len(tape) - 1) : tape[i] \in SimSymbols

\* the simulation relation of an embedded state: same state, one '#' and one
\* '$' with the head between them, the cells between them equal to the source
\* cells at the same distance from the head, and the source tape blank
\* everywhere else
Related ==
    /\ gen.state = SIM_PREFIX \o srcm.state
    /\ Cardinality(Positions(gen.tape, LEFT_WALL)) = 1
    /\ Cardinality(Positions(gen.tape, RIGHT_WALL)) = 1
    /\ LET l == TheOne(Positions(gen.tape, LEFT_WALL))
           r == TheOne(Positions(gen.tape, RIGHT_WALL))
           off == srcm.head - gen.head
       IN  /\ l < gen.head
           /\ gen.head < r
           /\ \A k \in (l + 1)..(r - 1) : gen.tape[k] = Cell(srcm.tape, k + off)
           /\ \A j \in 1..Len(srcm.tape) :
                 (j - off) \notin (l + 1)..(r - 1) => srcm.tape[j] = BLANK

\* C1 (as claimed): whenever the generated machine is in an embedded state
\* sim_q the source machine is in q, the cells between '#' and '$' are the
\* corresponding cells of the source tape, which is blank elsewhere, and the
\* heads correspond; and the generated machine is in a halt-prefixed state
\* exactly when the source machine is.
CE_C1_Simulation ==
    Running =>
        /\ Embedded(gen.state) => Related
        /\ is_halt_state(gen.state) <=> is_halt_state(srcm.state)

\* C2 (as claimed): when the generated machine first is in sim_0 the tape is
\* '#', the input (one blank cell for the empty input), '$', and the head is
\* on the cell right of '#'.
CE_C2_SetupDelimits ==
    (pc = "setup" /\ gen.state = renamed_start_state) =>
        /\ gen.tape = <<LEFT_WALL>> \o (IF input = <<>> THEN <<BLANK>> ELSE input)
                      \o <<RIGHT_WALL>>
        /\ gen.head = 2

\* C3 (as claimed): after check_left_S is entered on '#' with the tape '#',
\* c1..cn, '$', the machine does not stop before it is in S, and when it is in
\* S the tape is '#', blank, c1..cn, '$' and the head is on the cell right of
\* '#'.
CE_C3_ShiftOnLeftHit ==
    (exc.kind = "left" /\ exc.head = 1 /\ Delimited(exc.tape)) =>
        /\ gen.state # exc.target => HasRule(gen, prog)
        /\ gen.state = exc.target =>
              /\ gen.tape = <<LEFT_WALL, BLANK>> \o Tail(exc.tape)
              /\ gen.head = 2

\* C4: after check_right_S is entered on '$' at cell p, with cell p+1 blank,
\* the machine takes exactly two steps to S, and then cell p is blank, cell
\* p+1 holds '$', the head is on p and every other cell is as it was; after
\* check_right_S is entered on another symbol the next step leads to S with
\* the tape and the head as they were.
Thm_C4_CheckRight ==
    exc.kind = "right" =>
        LET p == exc.head
            S == exc.target
            cells == 1..(Len(exc.tape) + Len(gen.tape) + 2)
        IN  IF Cell(exc.tape, p) = RIGHT_WALL
            THEN Cell(exc.tape, p + 1) = BLANK =>
                    /\ exc.n <= 2
                    /\ exc.n < 2 => (gen.state # S /\ HasRule(gen, prog))
                    /\ exc.n = 2 =>
                          /\ gen.state = S
                          /\ gen.head = p
                          /\ Cell(gen.tape, p) = BLANK
                          /\ Cell(gen.tape, p + 1) = RIGHT_WALL
                          /\ \A i \in cells \ { p, p + 1 } :
                                Cell(gen.tape, i) = Cell(exc.tape, i)
            ELSE /\ exc.n <= 1
                 /\ exc.n = 0 => HasRule(gen, prog)
                 /\ exc.n = 1 =>
                       /\ gen.state = S
                       /\ gen.head = p
                       /\ \A i \in cells : Cell(gen.tape, i) = Cell(exc.tape, i)

Wit_C4_Expanded ==
    /\ exc.kind = "right"
    /\ Cell(exc.tape, exc.head) = RIGHT_WALL
    /\ exc.head >= 4
    /\ exc.n = 2
    /\ gen.state = exc.target
    /\ gen.tape[exc.head + 1] = RIGHT_WALL

(***************************************************************************)
(* SpecWall: a Sipser-to-Infinite conversion, then the generated machine   *)
(* run on its two-way tape beside the source machine on its one-way tape.  *)
(***************************************************************************)
\* what a table may hold for one symbol of state "0": no rule, a rule that
\* writes any symbol, moves any way and stays in "0", or a rule that writes a
\* blank, moves left or stays, and halts
WallRuleChoices ==
    { <<>> }
    \cup { <<[new_symbol |-> w, direction |-> d, new_state |-> START_STATE]>> :
              w \in SimSymbols, d \in Directions }
    \cup { <<[new_symbol |-> BLANK, direction |-> d, new_state |-> HALT1]>> :
              d \in { "Left", "Stay" } }

WallTables ==
    { [i \in 1..Len(c0) |-> Transition(START_STATE, "0", c0[i].new_symbol,
                                       c0[i].direction, c0[i].new_state)]
      \o [i \in 1..Len(c1) |-> Transition(START_STATE, "1", c1[i].new_symbol,
                                          c1[i].direction, c1[i].new_state)]
      \o [i \in 1..Len(cb) |-> Transition(START_STATE, BLANK, cb[i].new_symbol,
                                          cb[i].direction, cb[i].new_state)] :
        c0 \in WallRuleChoices, c1 \in WallRuleChoices, cb \in WallRuleChoices }

InitWall ==
    /\ machine_type = "Sipser"
    /\ original \in WallTables
    /\ input \in SimInputs
    /\ pc = "input"
    /\ outA = <<>>
    /\ outB = <<>>
    /\ prog = <<>>
    /\ gen = Idle
    /\ srcm = Idle
    /\ exc = NoExc
    /\ IoIdle

\* run_converter, then both machines are placed on the input, the head on
\* any cell of it; exc keeps the start configuration during the setup
ConvertWall ==
    /\ pc = "input"
    /\ \E order \in IterationOrders(target_states(machine_type, original)) :
          prog' = TransitionLines(output_file(machine_type,
                      all_transitions(machine_type, original, order)))
    /\ \E h \in 1..(IF input = <<>> THEN 1 ELSE Len(input)) :
          /\ gen' = [InitialConfig(input) EXCEPT !.head = h]
          /\ srcm' = gen'
          /\ exc' = [kind |-> "start", target |-> renamed_start_state,
                     tape |-> gen'.tape, head |-> h, n |-> 0]
    /\ pc' = "setup"
    /\ UNCHANGED <<machine_type, original, outA, outB, input>>
    /\ UNCHANGED ioVars

\* a step of the generated machine in a control state (setup,
\* check_left_wall_): the source machine waits
WallStepControl ==
    /\ pc \in { "setup", "embedded" }
    /\ ~Embedded(gen.state)
    /\ ~Halted(gen, prog)
    /\ gen' = Step(gen, prog, TRUE)
    /\ WithinTape(gen')
    /\ exc' = IF exc.kind = "none" THEN exc ELSE [exc EXCEPT !.n = @ + 1]
    /\ UNCHANGED <<machine_type, original, pc, outA, outB, input, prog, srcm>>
    /\ UNCHANGED ioVars

\* the source machine is about to move left from its first cell into a state
\* that is not terminal
Crossing(cfg, lines) ==
    /\ ~Halted(cfg, lines)
    /\ cfg.head = 1
    /\ LET idx == RuleIndices(lines, cfg.state, Cell(cfg.tape, cfg.head))
           line == lines[CHOOSE x \in idx : \A y \in idx : x <= y]
       IN  /\ line[4] = <<"l">>
           /\ ~is_halt_state(IF line[5] = <<ANY>> THEN cfg.state ELSE line[5])

\* a step of the generated machine in an embedded state sim_q: the source
\* machine takes its step too; exc records whether that step crossed the
\* left end of the source tape
WallStepEmbedded ==
    /\ pc \in { "setup", "embedded" }
    /\ Embedded(gen.state)
    /\ ~Halted(gen, prog)
    /\ gen' = Step(gen, prog, TRUE)
    /\ srcm' = IF Halted(srcm, SourceLines) THEN srcm
               ELSE Step(srcm, SourceLines, FALSE)
    /\ WithinTape(gen')
    /\ WithinTape(srcm')
    /\ exc' = [kind |-> IF Crossing(srcm, SourceLines) THEN "crossing" ELSE "none",
               target |-> <<>>, tape |-> gen.tape, head |-> gen.head, n |-> 0]
    /\ pc' = "embedded"
    /\ UNCHANGED <<machine_type, original, outA, outB, input, prog>>
    /\ UNCHANGED ioVars

NextWall == ConvertWall \/ WallStepControl \/ WallStepEmbedded

SpecWall == InitWall /\ [][NextWall]_vars

(***************************************************************************)
(* Properties of the Sipser-to-Infinite machine (SpecWall)                 *)
(***************************************************************************)
SameCells(a, b) == \A i \in 1..(Len(a) + Len(b)) : Cell(a, i) = Cell(b, i)

\* C11 (as claimed): from state "0" on any cell of the input the generated
\* machine does not stop before sim_0, and when it first is in sim_0 it has
\* written '#' on the first blank cell left of the start cell (the cell left
\* of the input word), changed nothing else, and the head is on the cell
\* right of that '#'.
CE_C11_WallSetup ==
    (machine_type = "Sipser" /\ pc = "setup") =>
        /\ gen.state \in { START_STATE, Q_WRITE_WALL } => HasRule(gen, prog)
        /\ gen.state = renamed_start_state =>
              /\ SameCells(gen.tape, <<LEFT_WALL>> \o exc.tape)
              /\ gen.head = 2

\* C12: started with the head on the first cell, the generated machine in an
\* embedded state sim_q has the source machine in q, the source tape right of
\* its '#' and the head on the same cell; it is in "halt" only right after a
\* Left move of the source machine from its first cell into a non-terminal
\* state, which it answers by entering check_left_wall_ on '#' and then
\* "halt", the head on '#' and the tape as the source machine left it.
Thm_C12_WallSimulation ==
    (machine_type = "Sipser" /\ (pc = "embedded" \/ (pc = "setup" /\ exc.head = 1))) =>
        /\ Embedded(gen.state) =>
              /\ gen.state = SIM_PREFIX \o srcm.state
              /\ SameCells(gen.tape, <<LEFT_WALL>> \o srcm.tape)
              /\ gen.head = srcm.head + 1
        /\ gen.state = <<"h","a","l","t">> =>
              /\ exc.kind = "crossing"
              /\ exc.n = 1
        /\ exc.kind = "crossing" =>
              /\ gen.head = 1
              /\ SameCells(gen.tape, <<LEFT_WALL>> \o srcm.tape)
              /\ exc.n <= 1
              /\ exc.n = 0 =>
                    /\ gen.state = CHECK_LEFT_WALL \o SIM_PREFIX \o srcm.state
                    /\ HasRule(gen, prog)
              /\ exc.n = 1 => gen.state = <<"h","a","l","t">>

Wit_C12_HaltAtWall ==
    /\ machine_type = "Sipser"
    /\ gen.state = <<"h","a","l","t">>
    /\ exc.kind = "crossing"
    /\ gen.head = 1
    /\ Len(srcm.tape) >= 3
    /\ srcm.tape # input

(***************************************************************************)
(* SpecWild: the Infinite-to-Sipser run of SpecSim for source tables that  *)
(* hold a wildcard rule.                                                   *)
(***************************************************************************)
\* the rule of state "0" for symbol "0": none, or one that stays in "0"
WildSpecificChoices ==
    { <<>> }
    \cup { <<Transition(START_STATE, "0", w, d, START_STATE)>> :
              w \in SimSymbols, d \in Directions }

\* the rule of state "0" for '*': it keeps or writes the symbol, moves any
\* way, and stays in "0" or halts
WildRules ==
    { Transition(START_STATE, ANY, w, d, q) :
        w \in { ANY, "1", BLANK }, d \in Directions, q \in { START_STATE, HALT1 } }

WildTables == { c \o <<r>> : c \in WildSpecificChoices, r \in WildRules }

InitWild ==
    /\ machine_type = "Infinite"
    /\ original \in WildTables
    /\ input \in SimInputs
    /\ pc = "input"
    /\ outA = <<>>
    /\ outB = <<>>
    /\ prog = <<>>
    /\ gen = Idle
    /\ srcm = Idle
    /\ exc = NoExc
    /\ IoIdle

SpecWild == InitWild /\ [][NextSim]_vars

\* C13 (as claimed): in every reachable configuration of the Infinite-to-Sipser
\* machine no step is taken by an embedded sim_ state while the head is on a
\* '#' or '$' cell, and every output record whose current symbol is '#' or
\* '$' has an engine control state as its current state.
CE_C13_MarkersOnlyInControl ==
    (machine_type = "Infinite" /\ pc \in { "setup", "embedded" }) =>
        /\ (Embedded(gen.state)
              /\ Cell(gen.tape, gen.head) \in { LEFT_WALL, RIGHT_WALL })
           => ~HasRule(gen, prog)
        /\ \A i \in 1..Len(prog) :
              prog[i][2] \in { <<LEFT_WALL>>, <<RIGHT_WALL>> }
              => ~starts_with(prog[i][1], SIM_PREFIX)

\* the same statement for the runs that start on a non-empty input
C13_NonEmptyInput == input # <<>> => CE_C13_MarkersOnlyInControl

(***************************************************************************)
(* Text of a line: a sequence of characters.  parse_line and the text that *)
(* Display writes are modelled character by character.                     *)
(***************************************************************************)
\* char::is_whitespace, the Unicode White_Space property that str::trim and
\* str::split_whitespace test: U+0009..U+000D, U+0020, U+0085, U+00A0 and
\* U+1680 written as they are; U+2000..U+200A, U+2028, U+2029, U+202F, U+205F
\* and U+3000, which a string of this module cannot hold, by their \u names
NBSP == " "

Whitespace ==
    { "\t", "\n", "", "\f", "\r", " ", "", " ", " " }
    \cup { "\\u2000", "\\u2001", "\\u2002", "\\u2003", "\\u2004", "\\u2005", "\\u2006", "\\u2007",
           "\\u2008", "\\u2009", "\\u200a", "\\u2028", "\\u2029", "\\u202f", "\\u205f", "\\u3000" }

MinOf(S) == CHOOSE x \in S : \A y \in S : x <= y

MaxOf(S) == CHOOSE x \in S : \A y \in S : x >= y

\* line.split(';').next(): the text before the first ';'
BeforeSemicolon(line) ==
    LET at == { i \in 1..Len(line) : line[i] = ";" }
    IN  IF at = {} THEN line ELSE SubSeq(line, 1, MinOf(at) - 1)

\* str::trim
trim(s) ==
    LET keep == { i \in 1..Len(s) : s[i] \notin Whitespace }
    IN  IF keep = {} THEN <<>> ELSE SubSeq(s, MinOf(keep), MaxOf(keep))

\* str::split_whitespace: the maximal runs of non-whitespace characters
RECURSIVE split_whitespace(_)
split_whitespace(s) ==
    LET keep == { i \in 1..Len(s) : s[i] \notin Whitespace }
    IN  IF keep = {} THEN <<>>
        ELSE LET from == MinOf(keep)
                 stops == { i \in from..Len(s) : s[i] \in Whitespace }
                 upto == IF stops = {} THEN Len(s) ELSE MinOf(stops) - 1
             IN  <<SubSeq(s, from, upto)>>
                 \o split_whitespace(SubSeq(s, upto + 1, Len(s)))

\* Direction::from_str; "none" stands for the InvalidDirection error
DirectionFromStr(s) ==
    IF s = <<"l">> THEN "Left"
    ELSE IF s = <<"r">> THEN "Right"
    ELSE IF s = <<ANY>> THEN "Stay"
    ELSE None

NoTransition == Transition(<<>>, "", "", "", <<>>)

ParseOk(t) == [kind |-> "Ok", transition |-> t, count |-> 5, arg |-> <<>>]

ParseErr(kind, count, arg) ==
    [kind |-> kind, transition |-> NoTransition, count |-> count, arg |-> arg]

\* mutant: the new symbol is read from the current-symbol token
parse_line_Mut(line) ==
    LET parts == split_whitespace(trim(BeforeSemicolon(line)))
    IN  IF parts = <<>> THEN ParseErr("Empty", 0, <<>>)
        ELSE IF Len(parts) # 5 THEN ParseErr("InvalidPartCount", Len(parts), <<>>)
        ELSE IF DirectionFromStr(parts[4]) = None
             THEN ParseErr("InvalidDirection", 5, parts[4])
        ELSE ParseOk(Transition(parts[1], parts[2][1], parts[2][1],
                                DirectionFromStr(parts[4]), parts[5]))

parse_line(line) ==
    LET stripped == trim(BeforeSemicolon(line))
        parts == split_whitespace(stripped)
    IN  IF stripped = <<>> THEN ParseErr("Empty", 0, <<>>)
        ELSE IF Len(parts) # 5 THEN ParseErr("InvalidPartCount", Len(parts), <<>>)
        ELSE IF parts[2] = <<>> THEN ParseErr("InvalidSymbol", 5, parts[2])
        ELSE IF parts[3] = <<>> THEN ParseErr("InvalidSymbol", 5, parts[3])
        ELSE IF DirectionFromStr(parts[4]) = None
             THEN ParseErr("InvalidDirection", 5, parts[4])
        ELSE ParseOk(Transition(parts[1], parts[2][1], parts[3][1],
                                DirectionFromStr(parts[4]), parts[5]))

\* tokens joined by a separator
RECURSIVE Join(_, _)
Join(tokens, sep) ==
    IF tokens = <<>> THEN <<>>
    ELSE IF Len(tokens) = 1 THEN tokens[1]
    ELSE tokens[1] \o sep \o Join(Tail(tokens), sep)

\* the text write!(f, "{} {} {} {} {}", ...) produces for a record
DisplayText(t) == Join(Display(t), <<" ">>)

(***************************************************************************)
(* SpecLine: one line.  Either a record is serialised and the text parsed  *)
(* back, or a typed line is parsed.                                        *)
(***************************************************************************)
Q1 == <<"q","1">>

LineLabels == { <<>>, START_STATE, Q1, <<ANY>>, HALT1 }

LineSymbols == { "0", "1", BLANK, ANY, ";" }

LineRecords ==
    { Transition(cs, csym, nsym, dir, ns) :
        cs \in LineLabels \ { HALT1 }, csym \in LineSymbols, nsym \in LineSymbols,
        dir \in Directions, ns \in LineLabels }

\* typed lines: five tokens, the symbol tokens one or two characters long,
\* the direction token valid or not; or four or six tokens; with one or more
\* whitespace characters between them (space, tab, no-break space), after a
\* space or form feed or nothing, before a comment, a carriage return or
\* nothing
TypedSymbols == { <<"0">>, <<BLANK>>, <<ANY>>, <<"0","1">>, <<"#","#">> }

TypedDirections == { <<"l">>, <<"r">>, <<ANY>>, <<"x">>, <<"L">> }

TypedTokens ==
    { <<START_STATE, a, b, d, q>> :
        a \in TypedSymbols, b \in TypedSymbols, d \in TypedDirections,
        q \in { START_STATE, HALT1, <<ANY>> } }
    \cup { <<START_STATE, a, b, <<"r">>>> : a \in TypedSymbols, b \in TypedSymbols }
    \cup { <<START_STATE, a, b, <<"r">>, Q1, Q1>> :
              a \in TypedSymbols, b \in TypedSymbols }

TypedLines ==
    { lead \o Join(toks, sep) \o tail :
        toks \in TypedTokens,
        sep \in { <<" ">>, <<" "," ">>, <<"\t">>, <<NBSP>> },
        lead \in { <<>>, <<" ">>, <<"\f">> },
        tail \in { <<>>, <<" ",";"," ","c">>, <<";">>, <<"\r">> } }

InitLine ==
    /\ machine_type = "Infinite"
    /\ original = <<>>
    /\ input = <<>>
    /\ outA = <<>>
    /\ outB = <<>>
    /\ prog = <<>>
    /\ gen = Idle
    /\ srcm = Idle
    /\ exc = NoExc
    /\ in_file = <<>>
    /\ result = None
    /\ out_file = "absent"
    /\ parsed = None
    /\ renamed_out = <<>>
    /\ \/ /\ pc = "record"
          /\ rec \in LineRecords
          /\ text = None
       \/ /\ pc = "typed"
          /\ rec = None
          /\ text \in TypedLines

\* writeln!(output_file, "{}", t)
Serialise ==
    /\ pc = "record"
    /\ text' = DisplayText(rec)
    /\ pc' = "display"
    /\ UNCHANGED <<machine_type, original, outA, outB, input, prog, gen, srcm, exc>>
    /\ UNCHANGED <<in_file, result, out_file, rec, parsed, renamed_out>>

ParseLine ==
    /\ pc \in { "display", "typed" }
    /\ parsed' = parse_line(text)
    /\ pc' = IF pc = "display" THEN "roundtrip" ELSE "parsedline"
    /\ UNCHANGED <<machine_type, original, outA, outB, input, prog, gen, srcm, exc>>
    /\ UNCHANGED <<in_file, result, out_file, rec, text, renamed_out>>

NextLine == Serialise \/ ParseLine

SpecLine == InitLine /\ [][NextLine]_vars

(***************************************************************************)
(* Properties of parse_line and Display (SpecLine)                         *)
(***************************************************************************)
TextTokens == split_whitespace(trim(BeforeSemicolon(text)))

\* C14 (as claimed): for every line with exactly five whitespace-separated
\* tokens, if token 2 or token 3 is not exactly one character long,
\* parse_line returns the invalid-symbol error and produces no Transition.
CE_C14_RejectsLongSymbols ==
    (pc = "parsedline" /\ Len(TextTokens) = 5
        /\ (Len(TextTokens[2]) # 1 \/ Len(TextTokens[3]) # 1))
    => parsed.kind = "InvalidSymbol"

\* what a line of five tokens parses to, whatever the length of its symbol
\* tokens: a Transition holding the first character of each symbol token, or
\* the invalid-direction error
C14_FirstCharacterTaken ==
    (pc = "parsedline" /\ Len(TextTokens) = 5) =>
        /\ parsed.kind \in { "Ok", "InvalidDirection" }
        /\ parsed.kind = "Ok" =>
              /\ parsed.transition.current_symbol = TextTokens[2][1]
              /\ parsed.transition.new_symbol = TextTokens[3][1]
        /\ parsed.kind = "InvalidDirection" <=>
              TextTokens[4] \notin { <<"l">>, <<"r">>, <<ANY>> }

\* a record whose text has five tokens: labels not empty, symbols neither
\* whitespace nor ';' (the labels of LineRecords hold neither)
Printable(r) ==
    /\ r.current_state # <<>>
    /\ r.new_state # <<>>
    /\ r.current_symbol \notin Whitespace \cup { ";" }
    /\ r.new_symbol \notin Whitespace \cup { ";" }

\* a '*' in the new-symbol position stands for the current symbol, a "*" in
\* the new-state position for the current state
Expand(t) ==
    [t EXCEPT !.new_symbol = IF @ = ANY THEN t.current_symbol ELSE @,
              !.new_state = IF @ = <<ANY>> THEN t.current_state ELSE @]

\* the record holds a literal '*' that is not its own expansion
LiteralWildcard(r) ==
    \/ r.new_symbol = ANY /\ r.current_symbol # ANY
    \/ r.new_state = <<ANY>> /\ r.current_state # <<ANY>>

\* C16 (as claimed): parsing the text Display produces for a record and
\* expanding '*' in the new-symbol and new-state positions yields the record
\* itself, also when its new symbol or new state is literally '*'.
CE_C16_RoundTripAnyRecord ==
    (pc = "roundtrip" /\ Printable(rec)) =>
        /\ parsed.kind = "Ok"
        /\ Expand(parsed.transition) = rec

\* C16 (amended): the text Display produces for a record parses without
\* error; the parsed record has the record's current state, current symbol
\* and direction, and expands to the expansion of the record; it expands to
\* the record itself exactly when the record has no literal '*' as new symbol
\* under another current symbol and no literal "*" as new state under another
\* current state.
Thm_C16_RoundTrip ==
    (pc = "roundtrip" /\ Printable(rec)) =>
        /\ parsed.kind = "Ok"
        /\ parsed.transition.current_state = rec.current_state
        /\ parsed.transition.current_symbol = rec.current_symbol
        /\ parsed.transition.direction = rec.direction
        /\ text = DisplayText(rec)
        /\ Expand(parsed.transition) = Expand(rec)
        /\ Expand(parsed.transition) = rec <=> ~LiteralWildcard(rec)

Wit_C16_Compressed ==
    /\ pc = "roundtrip"
    /\ Printable(rec)
    /\ rec.current_symbol = "0"
    /\ rec.new_symbol = "0"
    /\ rec.new_state = rec.current_state
    /\ rec.current_state = Q1
    /\ parsed.kind = "Ok"
    /\ parsed.transition.new_symbol = ANY
    /\ parsed.transition.new_state = <<ANY>>
    /\ Expand(parsed.transition) = rec

(***************************************************************************)
(* SpecFile: run_converter on an input file, a sequence of line texts; the *)
(* output file is absent or holds old content before the run.              *)
(***************************************************************************)
MaxLines == 4

\* MachineType::from_str; "none" stands for the InvalidHeader error
MachineTypeFromStr(s) ==
    IF s = <<";","S">> THEN "Sipser"
    ELSE IF s = <<";","I">> THEN "Infinite"
    ELSE None

ConvOk(mtype) ==
    [kind |-> "Ok", machine_type |-> mtype, error |-> ParseOk(NoTransition), arg |-> <<>>]

InvalidHeader(arg) ==
    [kind |-> "InvalidHeader", machine_type |-> None,
     error |-> ParseOk(NoTransition), arg |-> arg]

ParseError(e) ==
    [kind |-> "ParseError", machine_type |-> None, error |-> e, arg |-> <<>>]

\* ConversionError::Io; stage tells which '?' returned it: the read of the
\* input, the creation of the output file, or a write to it
IoError(stage) ==
    [kind |-> "Io", machine_type |-> None, error |-> ParseOk(NoTransition),
     arg |-> <<stage>>]

\* the text "File is empty"
FileIsEmpty == <<"F","i","l","e"," ","i","s"," ","e","m","p","t","y">>

\* lines.map(parse_line).filter(|r| !matches!(r, Err(Empty)))
parse_results(lines) ==
    LET NotEmpty(r) == r.kind # "Empty"
    IN  SelectSeq([i \in 1..Len(lines) |-> parse_line(lines[i])], NotEmpty)

\* mutant: the last failing line is the one reported
first_error_Mut(results) ==
    LET errs == { i \in 1..Len(results) : results[i].kind # "Ok" }
    IN  IF errs = {} THEN 0 ELSE MaxOf(errs)

\* collect::<Result<Vec<Transition>, _>>(): the index of the first Err, or 0
\* when every result is Ok
first_error(results) ==
    LET errs == { i \in 1..Len(results) : results[i].kind # "Ok" }
    IN  IF errs = {} THEN 0 ELSE MinOf(errs)

\* first lines: the two valid headers, a header after a space, and a
\* transition line
HeaderTexts ==
    { <<";","I">>, <<";","S">>, <<" ",";","I">>,
      Join(<<START_STATE, <<"0">>, <<"1">>, <<"x">>, START_STATE>>, <<" ">>) }

\* later lines: a blank line, a line holding a form feed only, a
\* comment-only line, two valid lines (one with a no-break space between two
\* tokens and a comment, one whose symbols are a two-byte and a three-byte
\* character and whose state is the four-byte character U+1F600, written by
\* its name like the characters from U+2000 on), a line with a bad direction,
\* a line with four tokens
BodyTexts ==
    { <<>>, <<"\f">>, <<" ",";","I">>,
      START_STATE \o <<" ","0",NBSP,"1"," ","r"," ">> \o HALT1
          \o <<" ",";"," ","c">>,
      Join(<<<<"\\u1f600">>, <<"é">>, <<"ᚠ">>, <<"l">>, HALT1>>, <<" ">>),
      Join(<<START_STATE, <<"0">>, <<"1">>, <<"x">>, START_STATE>>, <<" ">>),
      Join(<<START_STATE, <<"0">>, <<"1">>, <<"r">>>>, <<" ">>) }

\* the bytes of the output file.  A Rust string is UTF-8: write! and writeln!
\* hand the file the bytes of the text, so a character outside ASCII is two,
\* three or four bytes, and a failed write can stop between them.
\* The printable ASCII characters, in the order of their codes 32..126 (the
\* grave accent, code 96, is written by its name).
Ascii ==
    << 
       " ", "!", "\"", "#", "$", "%", "&", "'", "(", ")", "*", "+", ",", "-", ".", "/",
       "0", "1", "2", "3", "4", "5", "6", "7", "8", "9", ":", ";", "<", "=", ">", "?",
       "@", "A", "B", "C", "D", "E", "F", "G", "H", "I", "J", "K", "L", "M", "N", "O",
       "P", "Q", "R", "S", "T", "U", "V", "W", "X", "Y", "Z", "[", "\\", "]", "^", "_",
       "\\u0060", "a", "b", "c", "d", "e", "f", "g", "h", "i", "j", "k", "l", "m", "n", "o",
       "p", "q", "r", "s", "t", "u", "v", "w", "x", "y", "z", "{", "|", "}", "~" >>

\* the characters outside printable ASCII that the model writes down, each
\* with its code point
OtherCodePoints ==
    { <<"\t", 9>>, <<"\n", 10>>, <<"", 11>>, <<"\f", 12>>, <<"\r", 13>>,
      <<"", 133>>, <<NBSP, 160>>, <<"é", 233>>, <<"ᚠ", 5792>>, <<"\\u1f600", 128512>>,
      <<" ", 5760>>,
      <<"\\u2000", 8192>>, <<"\\u2001", 8193>>, <<"\\u2002", 8194>>,
      <<"\\u2003", 8195>>, <<"\\u2004", 8196>>, <<"\\u2005", 8197>>,
      <<"\\u2006", 8198>>, <<"\\u2007", 8199>>, <<"\\u2008", 8200>>,
      <<"\\u2009", 8201>>, <<"\\u200a", 8202>>, <<"\\u2028", 8232>>,
      <<"\\u2029", 8233>>, <<"\\u202f", 8239>>, <<"\\u205f", 8287>>,
      <<"\\u3000", 12288>> }

\* the code point of a character
CodePoint ==
    [c \in { Ascii[i] : i \in 1..Len(Ascii) } \cup { p[1] : p \in OtherCodePoints } |->
        IF \E i \in 1..Len(Ascii) : Ascii[i] = c
        THEN 31 + (CHOOSE i \in 1..Len(Ascii) : Ascii[i] = c)
        ELSE (CHOOSE p \in OtherCodePoints : p[1] = c)[2]]

\* the UTF-8 encoding of a code point: one to four bytes
Utf8(cp) ==
    IF cp < 128 THEN << cp >>
    ELSE IF cp < 2048 THEN << 192 + (cp \div 64), 128 + (cp % 64) >>
    ELSE IF cp < 65536
    THEN << 224 + (cp \div 4096), 128 + ((cp \div 64) % 64), 128 + (cp % 64) >>
    ELSE << 240 + (cp \div 262144), 128 + ((cp \div 4096) % 64),
            128 + ((cp \div 64) % 64), 128 + (cp % 64) >>

\* the bytes of a text
RECURSIVE Bytes(_)
Bytes(chars) ==
    IF chars = <<>> THEN <<>>
    ELSE Utf8(CodePoint[Head(chars)]) \o Bytes(Tail(chars))

\* the bytes of the output file: each line, its tokens separated by one
\* space, followed by a newline
RECURSIVE FileBytes(_)
FileBytes(lines) ==
    IF lines = <<>> THEN <<>>
    ELSE Bytes(Join(Head(lines), <<" ">>) \o <<"\n">>) \o FileBytes(Tail(lines))

\* the output file: absent, holding what an earlier run left, or created by
\* this run and holding the bytes written so far
Absent == [state |-> "absent", bytes |-> <<>>]
Old == [state |-> "old", bytes |-> <<>>]
Written(bytes) == [state |-> "written", bytes |-> bytes]

InitFile ==
    /\ in_file \in { <<>> } \cup
          { <<h>> \o body : h \in HeaderTexts,
              body \in UNION { [1..n -> BodyTexts] : n \in 0..(MaxLines - 1) } }
    /\ out_file \in { Absent, Old }
    /\ result = None
    /\ pc = "file"
    /\ machine_type = None
    /\ original = <<>>
    /\ input = <<>>
    /\ outA = <<>>
    /\ outB = <<>>
    /\ prog = <<>>
    /\ gen = Idle
    /\ srcm = Idle
    /\ exc = NoExc
    /\ rec = None
    /\ text = None
    /\ parsed = None
    /\ renamed_out = <<>>

\* The environment decides whether an I/O operation fails (io): the read
\* of the input (line 579), File::create (line 590) or a write (lines
\* 616-620).  The file is written unbuffered, so a failed write leaves the
\* truncated file with the bytes written before it: any proper prefix of the
\* output.
RunConverter ==
    /\ pc = "file"
    /\ pc' = "done"
    /\ \E io \in { "none", "read", "create", "write" } :
       IF io = "read"
       THEN /\ result' = IoError("read")
            /\ UNCHANGED <<machine_type, original, out_file>>
       ELSE IF in_file = <<>>
       THEN /\ result' = InvalidHeader(FileIsEmpty)
            /\ UNCHANGED <<machine_type, original, out_file>>
       ELSE IF MachineTypeFromStr(in_file[1]) = None
       THEN /\ result' = InvalidHeader(in_file[1])
            /\ UNCHANGED <<machine_type, original, out_file>>
       ELSE LET results == parse_results(Tail(in_file))
                failed == first_error(results)
            IN  IF failed # 0
                THEN /\ result' = ParseError(results[failed])
                     /\ UNCHANGED <<machine_type, original, out_file>>
                ELSE /\ machine_type' = MachineTypeFromStr(in_file[1])
                     /\ original' = [i \in 1..Len(results) |-> results[i].transition]
                     /\ IF io = "create"
                        THEN /\ result' = IoError("create")
                             /\ UNCHANGED out_file
                        ELSE \E order \in IterationOrders(target_states(machine_type', original')) :
                             \E full \in { FileBytes(output_file(machine_type',
                                     all_transitions(machine_type', original', order))) } :
                                 IF io = "write"
                                 THEN /\ result' = IoError("write")
                                      /\ \E n \in 0..(Len(full) - 1) :
                                            out_file' = Written(SubSeq(full, 1, n))
                                 ELSE /\ result' = ConvOk(machine_type')
                                      /\ out_file' = Written(full)
    /\ UNCHANGED <<outA, outB, input, prog, gen, srcm, exc, in_file>>
    /\ UNCHANGED <<rec, text, parsed, renamed_out>>

NextFile == RunConverter

SpecFile == InitFile /\ [][NextFile]_vars

(***************************************************************************)
(* Properties of run_converter on a file (SpecFile)                        *)
(***************************************************************************)
\* a blank or comment-only line: nothing but whitespace before the first ';'
\* or the end of the line
BlankOrComment(line) ==
    \A i \in 1..Len(line) :
        line[i] \in Whitespace \/ \E j \in 1..i : line[j] = ";"

\* the lines after the header that are neither blank nor comment-only and do
\* not parse
FailingLines ==
    { i \in 2..Len(in_file) :
        ~BlankOrComment(in_file[i]) /\ parse_line(in_file[i]).kind # "Ok" }

HeaderValid ==
    /\ in_file # <<>>
    /\ in_file[1] \in { <<";","I">>, <<";","S">> }

Untouched == out_file \in { Absent, Old }

\* C15: after a run that could read the file, an empty file or a first line
\* other than ";I" / ";S" gives the header error; otherwise the first line
\* after it that is neither blank nor comment-only and fails to parse gives
\* that line's parse error; in both cases, and also when the read failed,
\* nothing is transformed and the output file is as it was (absent, or its
\* old content); blank and comment-only lines never give an error; with no
\* such failure the output file is created and written, or an I/O error on
\* it is reported.
Thm_C15_FailFast ==
    pc = "done" =>
        LET readFailed == result.kind = "Io" /\ result.arg = <<"read">>
        IN  /\ (~HeaderValid /\ ~readFailed) =>
                  /\ result.kind = "InvalidHeader"
                  /\ result.arg = IF in_file = <<>> THEN FileIsEmpty ELSE in_file[1]
            /\ (HeaderValid /\ FailingLines # {} /\ ~readFailed) =>
                  /\ result.kind = "ParseError"
                  /\ result.error = parse_line(in_file[MinOf(FailingLines)])
                  /\ result.error.kind \in { "InvalidPartCount", "InvalidDirection" }
            /\ (~HeaderValid \/ FailingLines # {} \/ readFailed) =>
                  /\ result.kind # "Ok"
                  /\ Untouched
                  /\ original = <<>>
                  /\ machine_type = None
            /\ (HeaderValid /\ FailingLines = {} /\ ~readFailed) =>
                  /\ result.kind \in { "Ok", "Io" }
                  /\ machine_type = MachineTypeFromStr(in_file[1])
                  /\ Len(original) =
                        Cardinality({ i \in 2..Len(in_file) : ~BlankOrComment(in_file[i]) })
                  /\ result.kind = "Ok" =>
                        /\ result.machine_type = machine_type
                        /\ ~Untouched
                        /\ SubSeq(out_file.bytes, 1, 5) = <<59, 32, 45, 45, 45>>
                        /\ out_file.bytes[Len(out_file.bytes)] = 10
                        /\ Cardinality({ i \in 1..Len(out_file.bytes) :
                                           out_file.bytes[i] = 10 })
                              = 2 + (IF machine_type = "Infinite" THEN 13 ELSE 2)
                                  + Len(original)
            /\ result.kind \in { "InvalidHeader", "ParseError" } => Untouched

\* a file with a comment line, then a line with a bad direction, then a line
\* with four tokens: the bad direction is reported, an old output file is kept
Wit_C15_FirstOfTwoFailures ==
    /\ pc = "done"
    /\ HeaderValid
    /\ Len(in_file) = 4
    /\ BlankOrComment(in_file[2])
    /\ FailingLines = { 3, 4 }
    /\ parse_line(in_file[4]).kind = "InvalidPartCount"
    /\ result.kind = "ParseError"
    /\ result.error.kind = "InvalidDirection"
    /\ out_file = Old
    /\ original = <<>>

(***************************************************************************)
(* SpecRename: rename_original_states applied to a table whose labels      *)
(* include terminal labels, a label that already starts with "sim_", and a *)
(* proper prefix of "halt".                                                *)
(***************************************************************************)
MaxRenamed == 2

SIM0 == SIM_PREFIX \o START_STATE

RenameLabels == { START_STATE, SIM0, <<"h","a","l">>, <<"h","a","l","t">>, HALT1 }

RenameRecords ==
    { Transition(cs, "0", "1", "Right", ns) : cs \in RenameLabels, ns \in RenameLabels }
    \cup { Transition(cs, BLANK, BLANK, "Stay", ns) :
              cs \in RenameLabels, ns \in { START_STATE, SIM0, HALT1 } }

InitRename ==
    /\ original \in UNION { [1..n -> RenameRecords] : n \in 0..MaxRenamed }
    /\ pc = "table"
    /\ machine_type \in { "Infinite", "Sipser" }
    /\ input = <<>>
    /\ outA = <<>>
    /\ outB = <<>>
    /\ prog = <<>>
    /\ gen = Idle
    /\ srcm = Idle
    /\ exc = NoExc
    /\ IoIdle

Rename ==
    /\ pc = "table"
    /\ renamed_out' = rename_original_states(original, SIM_PREFIX)
    /\ pc' = "renamed"
    /\ UNCHANGED <<machine_type, original, outA, outB, input, prog, gen, srcm, exc>>
    /\ UNCHANGED <<in_file, result, out_file, rec, text, parsed>>

NextRename == Rename

SpecRename == InitRename /\ [][NextRename]_vars

\* the first four characters of the label are h, a, l, t
Terminal(label) ==
    /\ Len(label) >= 4
    /\ label[1] = "h" /\ label[2] = "a" /\ label[3] = "l" /\ label[4] = "t"

SourceLabels ==
    { original[i].current_state : i \in 1..Len(original) }
    \cup { original[i].new_state : i \in 1..Len(original) }

\* the label the renamed table holds where the source table holds the label
RenamedAs(label) ==
    { renamed_out[i].current_state :
        i \in { j \in 1..Len(original) : original[j].current_state = label } }
    \cup { renamed_out[i].new_state :
              i \in { j \in 1..Len(original) : original[j].new_state = label } }

\* C17: rename_original_states returns one record per input record in the
\* same order; a label that does not start with "halt" becomes "sim_"
\* followed by the label, a label that starts with "halt" is unchanged, in
\* current and in target position; symbols and direction are unchanged; two
\* different labels are never renamed to the same label.
Thm_C17_Renamer ==
    pc = "renamed" =>
        /\ Len(renamed_out) = Len(original)
        /\ \A i \in 1..Len(original) :
              /\ renamed_out[i].current_symbol = original[i].current_symbol
              /\ renamed_out[i].new_symbol = original[i].new_symbol
              /\ renamed_out[i].direction = original[i].direction
              /\ renamed_out[i].current_state =
                    IF Terminal(original[i].current_state)
                    THEN original[i].current_state
                    ELSE <<"s","i","m","_">> \o original[i].current_state
              /\ renamed_out[i].new_state =
                    IF Terminal(original[i].new_state)
                    THEN original[i].new_state
                    ELSE <<"s","i","m","_">> \o original[i].new_state
        /\ \A a \in SourceLabels, b \in SourceLabels :
              a # b => RenamedAs(a) \cap RenamedAs(b) = {}

\* a table that holds "0", "sim_0" and a terminal label
Wit_C17_PrefixedTwice ==
    /\ pc = "renamed"
    /\ Len(original) = 2
    /\ original[1].current_state = START_STATE
    /\ original[1].new_state = SIM0
    /\ original[2].current_state = <<"h","a","l">>
    /\ original[2].new_state = HALT1
    /\ renamed_out[1].new_state = SIM_PREFIX \o SIM0
    /\ renamed_out[2].current_state = SIM_PREFIX \o <<"h","a","l">>
    /\ renamed_out[2].new_state = HALT1

(***************************************************************************)
(* SpecPrim: a boundary primitive run on its own, on a one-way tape that   *)
(* holds a single '#'.  original is the primitive's table, exc the         *)
(* configuration at entry and the number of steps taken since.             *)
(***************************************************************************)
MaxPrim == 3

PrimTapes ==
    { pre \o <<LEFT_WALL>> \o c :
        pre \in { <<>>, <<"1">> },
        c \in UNION { [1..n -> { "0", "1", BLANK, RIGHT_WALL }] : n \in 0..MaxPrim } }

WallCell(tape) == CHOOSE i \in 1..Len(tape) : tape[i] = LEFT_WALL

InitPrim ==
    /\ input \in PrimTapes
    /\ pc = "tape"
    /\ machine_type = "Infinite"
    /\ original = <<>>
    /\ outA = <<>>
    /\ outB = <<>>
    /\ prog = <<>>
    /\ gen = Idle
    /\ srcm = Idle
    /\ exc = NoExc
    /\ IoIdle

\* generate_return_head_logic(R, T), entered in R on any cell right of '#'
GenerateReturnHead ==
    /\ pc = "tape"
    /\ \E names \in { <<Q_RETURN_HEAD, renamed_start_state>>,
                      <<SHIFT_RETURN \o renamed_start_state, renamed_start_state>> } :
       \E h \in (WallCell(input) + 1)..(Len(input) + 1) :
          /\ original' = generate_return_head_logic(names[1], names[2])
          /\ gen' = [state |-> names[1], tape |-> input, head |-> h]
          /\ exc' = [kind |-> "return", target |-> names[2], tape |-> input,
                     head |-> h, n |-> 0]
    /\ prog' = [i \in 1..Len(original') |-> Display(original'[i])]
    /\ pc' = "return"
    /\ UNCHANGED <<machine_type, outA, outB, input, srcm>>
    /\ UNCHANGED ioVars

\* generate_carry_logic(A, B), entered in A or B on any cell right of '#'
GenerateCarry ==
    /\ pc = "tape"
    /\ \E names \in { <<Q_CARRY_0, Q_CARRY_1>>,
                      <<SHIFT_CARRY_0 \o renamed_start_state,
                        SHIFT_CARRY_1 \o renamed_start_state>> } :
       \E h \in (WallCell(input) + 1)..(Len(input) + 1) :
       \E entry \in { 1, 2 } :
          /\ original' = generate_carry_logic(names[1], names[2])
          /\ gen' = [state |-> names[entry], tape |-> input, head |-> h]
          /\ exc' = [kind |-> "carry", target |-> names[entry], tape |-> input,
                     head |-> h, n |-> 0]
    /\ prog' = [i \in 1..Len(original') |-> Display(original'[i])]
    /\ pc' = "carry"
    /\ UNCHANGED <<machine_type, outA, outB, input, srcm>>
    /\ UNCHANGED ioVars

PrimStep ==
    /\ pc \in { "return", "carry" }
    /\ ~Halted(gen, prog)
    /\ gen' = Step(gen, prog, FALSE)
    /\ exc' = [exc EXCEPT !.n = @ + 1]
    /\ UNCHANGED <<machine_type, original, pc, outA, outB, input, prog, srcm>>
    /\ UNCHANGED ioVars

NextPrim == GenerateReturnHead \/ GenerateCarry \/ PrimStep

SpecPrim == InitPrim /\ [][NextPrim]_vars

(***************************************************************************)
(* Properties of the boundary primitives (SpecPrim)                        *)
(***************************************************************************)
\* C19: entered in R on a cell right of the single '#', the return-head
\* primitive never changes a cell; while in R it has moved left one cell per
\* step and can take another step; once it has left R it is in T on the cell
\* right of '#', which happens after as many steps as the distance from the
\* entry cell to '#', plus one.
Thm_C19_ReturnHead ==
    pc = "return" =>
        LET R == original[1].current_state
            T == exc.target
            wall == WallCell(exc.tape)
        IN  /\ SameCells(gen.tape, exc.tape)
            /\ exc.n <= exc.head - wall + 1
            /\ gen.state = R =>
                  /\ gen.head = exc.head - exc.n
                  /\ gen.head >= wall
                  /\ HasRule(gen, prog)
            /\ gen.state # R =>
                  /\ gen.state = T
                  /\ gen.head = wall + 1
                  /\ exc.n = exc.head - wall + 1

\* the head came back over a '$', blanks and bits from three cells away
Wit_C19_Returned ==
    /\ pc = "return"
    /\ gen.state = renamed_start_state
    /\ exc.tape = <<"1", LEFT_WALL, "0", BLANK, RIGHT_WALL>>
    /\ exc.head = 5
    /\ exc.n = 4
    /\ gen.head = 3

\* the length of the run of cells over {0,1} that starts at the entry cell
RunLength ==
    MinOf({ i \in exc.head..(Len(exc.tape) + 1) :
              Cell(exc.tape, i) \notin { "0", "1" } }) - exc.head

\* C20: entered in A (carrying 0) or B (carrying 1) at the left end of a run
\* of k cells over {0,1}, after n <= k steps of the carry sweep the entry
\* cell holds the carried bit, each further swept cell holds the original
\* value of the cell left of it, every other cell is as it was, the head is n
\* cells right of the entry cell, and the state is A if the last bit swept
\* was 0 and B if it was 1; the sweep takes exactly k steps.
Thm_C20_CarrySweep ==
    pc = "carry" =>
        LET A == original[1].current_state
            B == original[3].current_state
            h == exc.head
            n == exc.n
        IN  /\ n <= RunLength
            /\ gen.head = h + n
            /\ \A i \in 1..(Len(exc.tape) + Len(gen.tape)) :
                  Cell(gen.tape, i) =
                      IF i = h /\ n >= 1
                      THEN (IF exc.target = A THEN "0" ELSE "1")
                      ELSE IF i > h /\ i < h + n THEN Cell(exc.tape, i - 1)
                      ELSE Cell(exc.tape, i)
            /\ gen.state =
                  IF n = 0 THEN exc.target
                  ELSE IF Cell(exc.tape, h + n - 1) = "0" THEN A ELSE B
            /\ HasRule(gen, prog) <=> n < RunLength

\* the run 0 1 1 swept while carrying 1: it now holds 1 0 1 and 1 is carried
Wit_C20_Swept ==
    /\ pc = "carry"
    /\ exc.tape = <<LEFT_WALL, "0", "1", "1">>
    /\ exc.head = 2
    /\ exc.target = Q_CARRY_1
    /\ exc.n = 3
    /\ gen.tape = <<LEFT_WALL, "1", "0", "1", BLANK>>
    /\ gen.head = 5
    /\ gen.state = Q_CARRY_1

(***************************************************************************)
(* SpecLabels: one run of run_converter on a table whose user labels look  *)
(* like engine labels ("0", "q_carry_0", "check_right_sim_0") or are      *)
(* terminal.                                                               *)
(***************************************************************************)
MaxLabelRules == 2

UserLabels == { START_STATE, Q_CARRY_0, CHECK_RIGHT \o SIM0 }

LabelRecords ==
    { Transition(cs, csym, BLANK, dir, ns) :
        cs \in UserLabels \cup { HALT1 }, csym \in { "0", "1" },
        dir \in { "Left", "Right" },
        ns \in { START_STATE, CHECK_RIGHT \o SIM0, HALT1 } }

InitLabels ==
    /\ machine_type \in { "Infinite", "Sipser" }
    /\ original \in UNION { [1..n -> LabelRecords] : n \in 0..MaxLabelRules }
    /\ pc = "input"
    /\ outA = <<>>
    /\ outB = <<>>
    /\ input = <<>>
    /\ prog = <<>>
    /\ gen = Idle
    /\ srcm = Idle
    /\ exc = NoExc
    /\ IoIdle

SpecLabels == InitLabels /\ [][NextOut]_vars

\* no two records of the table share (current_state, current_symbol)
Deterministic(table) ==
    Cardinality({ <<table[i].current_state, table[i].current_symbol>> :
                    i \in 1..Len(table) }) = Len(table)

\* the role prefixes of the pipeline's control clusters
Roles ==
    IF machine_type = "Infinite"
    THEN { CHECK_RIGHT, EXPAND_RIGHT, CHECK_LEFT, SHIFT_START, SHIFT_CARRY_0,
           SHIFT_CARRY_1, SHIFT_WRITE_END, SHIFT_RETURN }
    ELSE { CHECK_LEFT_WALL }

\* the current states of the records that are not rewritten source records
EngineLabels ==
    { outA[k].current_state :
        k \in (1..SetupLen) \cup ((SetupLen + Len(original) + 1)..Len(outA)) }

RenamedLabels ==
    { Renamed[i].current_state : i \in Indices }
    \cup { Renamed[i].new_state : i \in Indices }

\* C21: after a run on a table whose labels may begin with an engine prefix,
\* the output has no two records with the same (current_state,
\* current_symbol) if the source table has none; no current state of a setup
\* or cluster record is a renamed source label; and the cluster labels are
\* one per (role, destination) pair, all different.
Thm_C21_CollisionFree ==
    pc = "ranA" =>
        LET engine == EngineLabels
            targets == ClusterTargets
        IN  /\ Deterministic(original) => Deterministic(outA)
            /\ engine \cap RenamedLabels = {}
            /\ \A r1 \in Roles, r2 \in Roles :
               \A s1 \in targets, s2 \in targets :
                  (r1 \o s1 = r2 \o s2) => (r1 = r2 /\ s1 = s2)
            /\ engine = SetupStates \cup { r \o t : r \in Roles, t \in targets }
            /\ Cardinality(engine \ SetupStates)
                  = Cardinality(Roles) * Cardinality(targets)

\* the user table names "0", "q_carry_0" and "check_right_sim_0"; the output
\* holds the engine's check_right_sim_0 beside the renamed user label
Wit_C21_ReservedUserLabels ==
    /\ pc = "ranA"
    /\ machine_type = "Infinite"
    /\ Len(original) = 2
    /\ Deterministic(original)
    /\ original[1].current_state = Q_CARRY_0
    /\ original[1].new_state = START_STATE
    /\ original[2].current_state = START_STATE
    /\ original[2].new_state = CHECK_RIGHT \o SIM0
    /\ CHECK_RIGHT \o SIM0 \in EngineLabels
    /\ SIM_PREFIX \o CHECK_RIGHT \o SIM0 \in RenamedLabels
    /\ CHECK_RIGHT \o SIM_PREFIX \o CHECK_RIGHT \o SIM0 \in EngineLabels

(***************************************************************************)
(* Progress of the engine control states (SpecSim)                         *)
(***************************************************************************)
\* the generated machine is in a setup, check_, expand_ or shift_ state
InControl ==
    /\ pc \in { "setup", "embedded" }
    /\ ~Embedded(gen.state)
    /\ ~is_halt_state(gen.state)

\* C22 (as claimed): whenever the Infinite-to-Sipser machine is in an engine
\* control state, some output record applies to the symbol under the head, so
\* the control phase never stops short of an embedded or terminal state; in
\* particular a shift goes through also when the region holds blanks.
CE_C22_NoDeadEndInControl ==
    (machine_type = "Infinite" /\ InControl) => HasRule(gen, prog)

\* the same statement for the control states outside the shift cluster
C22_OutsideShift ==
    (machine_type = "Infinite" /\ InControl
        /\ ~starts_with(gen.state, <<"s","h","i","f","t","_">>))
    => HasRule(gen, prog)
====
